---- MODULE Spec2Model ----
(***************************************************************************)
(* Model of sqlite2pg.py: the one-shot migration of six headscale tables   *)
(* from a SQLite file to PostgreSQL.  main() is a straight-line pipeline:  *)
(* create the six tables, copy each table (fetch, coerce, bulk insert),    *)
(* resynchronise the sequences, close the connections.                     *)
(*                                                                         *)
(* The two stores are modelled by what the statements of the script do to  *)
(* them: the source as one row list per table, the target as one row list  *)
(* per table plus the existence of each table and the state of the         *)
(* sequence behind each bigserial key.                                     *)
(***************************************************************************)
EXTENDS Integers, Sequences, FiniteSets, TLC

\* Rows per source table in the snapshots Init enumerates.
MaxRows == 2

(***************************************************************************)
(* Values.  sqlite3 hands back None, int, str or bytes; the script turns   *)
(* some of them into bool.  A value is a one-field record named after its  *)
(* Python type.                                                            *)
(***************************************************************************)
NULL == [null |-> TRUE]
IntV(n) == [int |-> n]
TextV(s) == [text |-> s]
BlobV(b) == [blob |-> b]
BoolV(b) == [bool |-> b]
\* Outcome of a conversion that raises instead of returning a value.
Raised == [raise |-> TRUE]

Range(s) == {s[k] : k \in 1..Len(s)}

\* The static schema description.
TABLES ==
  [migrations |-> [columns |-> <<
      <<"id", "varchar(32) PRIMARY KEY">> >>],
   users |-> [columns |-> <<
      <<"id", "bigserial PRIMARY KEY">>,
      <<"created_at", "timestamp with time zone">>,
      <<"updated_at", "timestamp with time zone">>,
      <<"deleted_at", "timestamp with time zone">>,
      <<"name", "varchar(63) UNIQUE NOT NULL">>,
      <<"display_name", "varchar(63)">>,
      <<"email", "varchar(255)">>,
      <<"provider_identifier", "varchar(255)">>,
      <<"provider", "varchar(255)">>,
      <<"profile_pic_url", "varchar(255)">> >>],
   pre_auth_keys |-> [columns |-> <<
      <<"id", "bigserial PRIMARY KEY">>,
      <<"key", "varchar(63) UNIQUE NOT NULL">>,
      <<"user_id", "bigint REFERENCES users(id)">>,
      <<"reusable", "boolean DEFAULT false">>,
      <<"ephemeral", "boolean DEFAULT false">>,
      <<"used", "boolean DEFAULT false">>,
      <<"tags", "varchar(255)">>,
      <<"created_at", "timestamp with time zone">>,
      <<"expiration", "timestamp with time zone">> >>],
   api_keys |-> [columns |-> <<
      <<"id", "bigserial PRIMARY KEY">>,
      <<"prefix", "varchar(8) UNIQUE NOT NULL">>,
      <<"hash", "bytea NOT NULL">>,
      <<"created_at", "timestamp with time zone">>,
      <<"expiration", "timestamp with time zone">>,
      <<"last_seen", "timestamp with time zone">> >>],
   policies |-> [columns |-> <<
      <<"id", "bigserial PRIMARY KEY">>,
      <<"created_at", "timestamp with time zone">>,
      <<"updated_at", "timestamp with time zone">>,
      <<"deleted_at", "timestamp with time zone">>,
      <<"data", "text">> >>],
   nodes |-> [columns |-> <<
      <<"id", "bigserial PRIMARY KEY">>,
      <<"machine_key", "varchar(255) UNIQUE NOT NULL">>,
      <<"node_key", "varchar(255)">>,
      <<"disco_key", "varchar(255)">>,
      <<"endpoints", "text">>,
      <<"host_info", "text">>,
      <<"ipv4", "inet">>,
      <<"ipv6", "inet">>,
      <<"hostname", "varchar(255)">>,
      <<"given_name", "varchar(255)">>,
      <<"user_id", "bigint REFERENCES users(id)">>,
      <<"register_method", "varchar(255)">>,
      <<"forced_tags", "text">>,
      <<"auth_key_id", "bigint">>,
      <<"expiry", "timestamp with time zone">>,
      <<"last_seen", "timestamp with time zone">>,
      <<"approved_routes", "text">>,
      <<"created_at", "timestamp with time zone">>,
      <<"updated_at", "timestamp with time zone">>,
      <<"deleted_at", "timestamp with time zone">> >>]]

BOOL_FIELDS == [pre_auth_keys |-> <<"reusable", "ephemeral", "used">>]

BLOB_FIELDS == [api_keys |-> <<"hash">>]

\* dict.get(table, []) of main()
Get(d, table) == IF table \in DOMAIN d THEN d[table] ELSE <<>>

\* Mutant: users is processed after the tables that reference it.
order_users_last ==
  <<"migrations", "pre_auth_keys", "api_keys", "policies", "nodes", "users">>

\* Mutant: users is listed twice.
order_users_twice ==
  <<"users", "migrations", "pre_auth_keys", "api_keys", "policies", "nodes", "users">>

\* main(): the processing order of the tables
order == <<"users", "migrations", "pre_auth_keys", "api_keys", "policies", "nodes">>

Tables == Range(order)

\* main(): fields = [col for col, _ in TABLES[table]['columns']]
Fields(table) ==
  [j \in 1..Len(TABLES[table].columns) |-> TABLES[table].columns[j][1]]

\* The type declaration of column j of a table.
Dtype(table, j) == TABLES[table].columns[j][2]

(***************************************************************************)
(* The coercions of fetch_and_insert.                                      *)
(***************************************************************************)
\* Python's bool(val) on the values sqlite3 returns.
PyTruth(val) ==
  CASE "int" \in DOMAIN val -> val.int # 0
    [] "text" \in DOMAIN val -> val.text # <<>>
    [] "blob" \in DOMAIN val -> val.blob # <<>>
    [] "bool" \in DOMAIN val -> val.bool
    [] OTHER -> FALSE

\* Mutant: the integer is passed on as it is.
convert_bool_identity(val) == val

convert_bool(val) == IF val = NULL THEN NULL ELSE BoolV(PyTruth(val))

\* Python's bytes(val): a copy of a bytes object, n zero bytes for an
\* integer n >= 0, an exception for a negative integer or a str.
PyBytes(val) ==
  CASE "blob" \in DOMAIN val -> BlobV(val.blob)
    [] "bool" \in DOMAIN val -> BlobV([k \in 1..(IF val.bool THEN 1 ELSE 0) |-> 0])
    [] "int" \in DOMAIN val /\ val.int >= 0 -> BlobV([k \in 1..val.int |-> 0])
    [] OTHER -> Raised

\* The body of the loop over sqlite_cur.fetchall(): the boolean pass, then
\* the blob pass, over one row.
ConvertRow(fields, bool_fields, blob_fields, row) ==
  LET afterBool ==
        [idx \in 1..Len(row) |->
           IF bool_fields # <<>> /\ fields[idx] \in Range(bool_fields)
             THEN convert_bool(row[idx]) ELSE row[idx]]
  IN  [idx \in 1..Len(row) |->
         IF blob_fields # <<>> /\ fields[idx] \in Range(blob_fields)
                               /\ afterBool[idx] # NULL
           THEN PyBytes(afterBool[idx]) ELSE afterBool[idx]]

\* Mutant: the first fetched row is lost.
ConvertRows_skip_first(fields, bool_fields, blob_fields, fetched) ==
  [r \in 1..(Len(fetched) - 1) |->
     ConvertRow(fields, bool_fields, blob_fields, fetched[r + 1])]

\* The list `rows` fetch_and_insert builds from the fetched rows.
ConvertRows(fields, bool_fields, blob_fields, fetched) ==
  [r \in 1..Len(fetched) |-> ConvertRow(fields, bool_fields, blob_fields, fetched[r])]

\* bytes() raised on some value of some fetched row.
ConversionRaises(rows) ==
  \E r \in 1..Len(rows) : \E j \in 1..Len(rows[r]) : rows[r][j] = Raised

(***************************************************************************)
(* What PostgreSQL does with the statements the script sends, as far as    *)
(* the declarations in TABLES decide it.                                   *)
(***************************************************************************)
IsSerial(dtype) == dtype = "bigserial PRIMARY KEY"

IsNotNull(dtype) ==
  dtype \in {"bigserial PRIMARY KEY", "varchar(32) PRIMARY KEY",
             "varchar(63) UNIQUE NOT NULL", "varchar(8) UNIQUE NOT NULL",
             "varchar(255) UNIQUE NOT NULL", "bytea NOT NULL"}

IsUnique(dtype) ==
  dtype \in {"bigserial PRIMARY KEY", "varchar(32) PRIMARY KEY",
             "varchar(63) UNIQUE NOT NULL", "varchar(8) UNIQUE NOT NULL",
             "varchar(255) UNIQUE NOT NULL"}

RefsUsers(dtype) == dtype = "bigint REFERENCES users(id)"

\* The Python type a column of this declaration accepts as a parameter.
Accepts(dtype, val) ==
  \/ val = NULL
  \/ CASE dtype \in {"bigserial PRIMARY KEY", "bigint", "bigint REFERENCES users(id)"}
            -> "int" \in DOMAIN val
       [] dtype = "boolean DEFAULT false" -> "bool" \in DOMAIN val
       [] dtype = "bytea NOT NULL" -> "blob" \in DOMAIN val
       [] OTHER -> "text" \in DOMAIN val

\* The columns of a table that own a sequence (pg_get_serial_sequence).
SerialCols(table) ==
  {j \in 1..Len(TABLES[table].columns) : IsSerial(Dtype(table, j))}

References(table) ==
  \E j \in 1..Len(TABLES[table].columns) : RefsUsers(Dtype(table, j))

\* A sequence as CREATE TABLE makes it: nextval() will return 1.
FreshSeq == [last_value |-> 1, is_called |-> FALSE]

\* The value nextval() returns for a sequence.
NextVal(s) == IF s.is_called THEN s.last_value + 1 ELSE s.last_value

\* CREATE TABLE IF NOT EXISTS cannot succeed for a table that references
\* users(id) while users does not exist.
CreateAccepted(table, ex) ==
  ex[table] \/ (References(table) => ex["users"])

\* INSERT INTO table VALUES rows can succeed only if the table exists and
\* the rows meet the declared types and constraints.
InsertAccepted(table, new, tg, ex) ==
  LET all == tg[table] \o new
      n == Len(TABLES[table].columns)
  IN  /\ ex[table]
      /\ \A r \in 1..Len(new) : \A j \in 1..n :
            /\ Accepts(Dtype(table, j), new[r][j])
            /\ IsNotNull(Dtype(table, j)) => new[r][j] # NULL
            /\ RefsUsers(Dtype(table, j)) =>
                 \/ new[r][j] = NULL
                 \/ \E u \in 1..Len(tg["users"]) : tg["users"][u][1] = new[r][j]
      /\ \A j \in 1..n : IsUnique(Dtype(table, j)) =>
            \A a, b \in 1..Len(all) : a # b => all[a][j] # all[b][j]

\* MAX(col) over the rows of a table; the rows are not empty.
MaxOf(rs, j) ==
  CHOOSE m \in {rs[r][j].int : r \in 1..Len(rs)} :
    \A r \in 1..Len(rs) : rs[r][j].int <= m

\* COALESCE((SELECT MAX(col) FROM table), 1)
CoalesceMax(rs, j) == IF rs = <<>> THEN 1 ELSE MaxOf(rs, j)

\* Mutant: setval(seq, value, false), after which nextval returns value.
SetvalAll_not_called(sq, tg, ex) ==
  [t \in Tables |->
     IF ex[t] /\ SerialCols(t) # {}
       THEN [last_value |-> CoalesceMax(tg[t], CHOOSE j \in SerialCols(t) : TRUE),
             is_called |-> FALSE]
       ELSE sq[t]]

\* The DO block of update_sequences: setval for every serial column of
\* every existing table.
SetvalAll(sq, tg, ex) ==
  [t \in Tables |->
     IF ex[t] /\ SerialCols(t) # {}
       THEN [last_value |-> CoalesceMax(tg[t], CHOOSE j \in SerialCols(t) : TRUE),
             is_called |-> TRUE]
       ELSE sq[t]]

\* setval rejects a value below the sequence's minimum, 1.
SetvalAccepted(tg, ex) ==
  \A t \in Tables : \A j \in SerialCols(t) : ex[t] => CoalesceMax(tg[t], j) >= 1

(***************************************************************************)
(* The lines a step prints.                                                *)
(***************************************************************************)
Msg(text) == [text |-> text]
TMsg(table, text) == [table |-> table, text |-> text]
ErrMsg(table, text, e) == [table |-> table, text |-> text, e |-> e]
CountMsg(table, text, n) == [table |-> table, text |-> text, n |-> n]

(***************************************************************************)
(* The snapshots of the two stores a run starts from.  A source column     *)
(* holds NULL or a value of the type headscale stores in it: integers in   *)
(* the boolean columns, bytes in the blob column, integers in the key      *)
(* columns, text elsewhere.  The target is a fresh database, a database    *)
(* with the six tables empty, or one with a row per table left by an       *)
(* earlier run.                                                            *)
(***************************************************************************)
\* What SQLite holds in a column that stores booleans as integers.
BoolSrc == <<NULL, IntV(0), IntV(1), IntV(2), IntV(-1)>>

\* What SQLite holds in a blob column.
BlobSrc == <<BlobV(<<>>), BlobV(<<0>>), BlobV(<<255, 1>>), NULL>>

\* Row i of a source table, in value pattern v; nUsers is the number of
\* rows of the source table users (keys 1..nUsers).
SrcRow(table, i, v, nUsers) ==
  [j \in 1..Len(TABLES[table].columns) |->
     LET c == Fields(table)[j] IN
     CASE c \in Range(Get(BOOL_FIELDS, table)) -> BoolSrc[((i + j + v) % Len(BoolSrc)) + 1]
       [] c \in Range(Get(BLOB_FIELDS, table)) -> BlobSrc[((i + v) % Len(BlobSrc)) + 1]
       [] IsSerial(Dtype(table, j)) -> IntV(i)
       [] RefsUsers(Dtype(table, j)) -> IF i <= nUsers THEN IntV(i) ELSE NULL
       [] Dtype(table, j) = "bigint" -> IF (i + v) % 2 = 0 THEN IntV(i) ELSE NULL
       [] c = "deleted_at" -> NULL
       [] OTHER -> TextV(<<c, i>>)]

\* A row with key p left in a target table by an earlier run.
OldRow(table, p) ==
  [j \in 1..Len(TABLES[table].columns) |->
     LET c == Fields(table)[j] IN
     CASE Dtype(table, j) = "boolean DEFAULT false" -> BoolV(FALSE)
       [] Dtype(table, j) = "bytea NOT NULL" -> BlobV(<<p>>)
       [] IsSerial(Dtype(table, j)) -> IntV(p)
       [] RefsUsers(Dtype(table, j)) -> IntV(p)
       [] Dtype(table, j) = "bigint" -> NULL
       [] OTHER -> TextV(<<c, p>>)]

VARIABLES
  src,          \* the SQLite database: table -> rows
  tgt,          \* the PostgreSQL database: table -> rows
  exists,       \* table -> whether it exists in PostgreSQL
  seq,          \* table -> the sequence behind its bigserial key
  pc,           \* where main() is
  i,            \* index into order of the loop main() is in
  rows,         \* the list `rows` of the latest fetch_and_insert call
  out,          \* the lines the latest step printed
  exc,          \* the exception that left main(), "none" while there is none
  sqlite_open,  \* the SQLite connection and cursor are open
  pg_open,      \* the PostgreSQL connection and cursor are open
  tgt0,         \* history: tgt as it was when the run started
  caught,       \* history: some except-clause has run
  calls         \* history: how often each statement was sent, per table

vars == <<src, tgt, exists, seq, pc, i, rows, out, exc, sqlite_open, pg_open,
          tgt0, caught, calls>>

NoCalls == [t \in Tables |-> 0]

Init ==
  /\ \E k \in 0..MaxRows : \E hole \in Tables \cup {"none"} :
     \E v \in 0..(Len(BoolSrc) - 1) :
       LET n(t) == IF t = hole THEN 0 ELSE k IN
       src = [t \in Tables |-> [r \in 1..n(t) |-> SrcRow(t, r, v, n("users"))]]
  /\ \/ /\ exists = [t \in Tables |-> FALSE]
        /\ tgt = [t \in Tables |-> <<>>]
        /\ seq = [t \in Tables |-> FreshSeq]
     \/ /\ exists = [t \in Tables |-> TRUE]
        /\ tgt = [t \in Tables |-> <<>>]
        /\ seq = [t \in Tables |-> FreshSeq]
     \/ \E p \in {1, MaxRows + 1} :
        /\ exists = [t \in Tables |-> TRUE]
        /\ tgt = [t \in Tables |-> <<OldRow(t, p)>>]
        /\ seq = [t \in Tables |-> [last_value |-> p, is_called |-> TRUE]]
  /\ pc = "create"
  /\ i = 1
  /\ rows = <<>>
  /\ out = <<>>
  /\ exc = "none"
  /\ sqlite_open = TRUE
  /\ pg_open = TRUE
  /\ tgt0 = tgt
  /\ caught = FALSE
  /\ calls = [create |-> NoCalls, fetch |-> NoCalls, insert |-> NoCalls,
              setval |-> 0]

(***************************************************************************)
(* The functions of the script.  Each takes the lines main() printed       *)
(* before the call, so that out' is everything the step printed.           *)
(***************************************************************************)
Count(kind, table) ==
  [calls EXCEPT ![kind] = [@ EXCEPT ![table] = @ + 1]]

\* create_table: one CREATE TABLE IF NOT EXISTS; an exception is printed
\* and swallowed.
create_table(table, printed) ==
  /\ calls' = Count("create", table)
  /\ \/ /\ CreateAccepted(table, exists)
        /\ exists' = [exists EXCEPT ![table] = TRUE]
        /\ seq' = IF exists[table] THEN seq ELSE [seq EXCEPT ![table] = FreshSeq]
        /\ out' = printed \o <<TMsg(table, "Table created or already exists.")>>
        /\ UNCHANGED caught
     \/ /\ out' = printed \o <<ErrMsg(table, "Error creating table", "psycopg2.Error")>>
        /\ caught' = TRUE
        /\ UNCHANGED <<exists, seq>>
  /\ UNCHANGED <<src, tgt, rows, exc>>

\* Mutant: without autocommit, the rollback after a failed INSERT undoes the
\* inserts before it.
AfterFailedInsert_rollback == tgt0

\* main(): pg.autocommit = True.  Every statement is its own transaction, so
\* a failed INSERT undoes nothing but itself.
AfterFailedInsert == tgt

\* fetch_and_insert: SELECT the listed columns, coerce every row, and send
\* one bulk INSERT unless there is no row.  The SELECT and the coercion
\* stand outside the try block: what they raise leaves the function.  The
\* model's tables hold fewer rows than one page of execute_values, so the
\* bulk insert is one statement: it adds every row or none.
fetch_and_insert(table, fields, bool_fields, blob_fields, printed) ==
  LET converted == ConvertRows(fields, bool_fields, blob_fields, src[table]) IN
  \/ /\ exc' \in {"sqlite3.Error"} \cup
                 (IF ConversionRaises(converted) THEN {"TypeError"} ELSE {})
     /\ calls' = Count("fetch", table)
     /\ rows' = <<>>
     /\ out' = printed
     /\ UNCHANGED <<src, tgt, exists, seq, caught>>
  \/ /\ ~ConversionRaises(converted)
     /\ converted = <<>>
     /\ calls' = Count("fetch", table)
     /\ rows' = converted
     /\ out' = printed \o <<TMsg(table, "No data to insert.")>>
     /\ UNCHANGED <<src, tgt, exists, seq, caught, exc>>
  \/ /\ ~ConversionRaises(converted)
     /\ converted # <<>>
     /\ calls' = [Count("fetch", table) EXCEPT !["insert"] =
                    [@ EXCEPT ![table] = @ + 1]]
     /\ rows' = converted
     /\ \/ /\ InsertAccepted(table, converted, tgt, exists)
           /\ tgt' = [tgt EXCEPT ![table] = @ \o converted]
           /\ out' = printed \o <<CountMsg(table, "Imported rows.", Len(converted))>>
           /\ UNCHANGED caught
        \/ /\ out' = printed \o <<ErrMsg(table, "Error", "psycopg2.Error")>>
           /\ caught' = TRUE
           /\ tgt' = AfterFailedInsert
     /\ UNCHANGED <<src, exists, seq, exc>>

\* Mutant: no try block around the DO block.
update_sequences_uncaught(printed) ==
  /\ calls' = [calls EXCEPT !["setval"] = @ + 1]
  /\ \/ /\ SetvalAccepted(tgt, exists)
        /\ seq' = SetvalAll(seq, tgt, exists)
        /\ out' = printed \o <<Msg("Updating PostgreSQL sequences..."),
                               Msg("Sequences updated successfully.")>>
        /\ exc' = exc
     \/ /\ out' = printed \o <<Msg("Updating PostgreSQL sequences...")>>
        /\ exc' = "psycopg2.Error"
        /\ UNCHANGED seq
  /\ UNCHANGED <<src, tgt, exists, rows, caught>>

\* update_sequences: one DO block, which sets every sequence or, when it
\* fails, none; an exception is printed and swallowed.
update_sequences(printed) ==
  /\ calls' = [calls EXCEPT !["setval"] = @ + 1]
  /\ \/ /\ SetvalAccepted(tgt, exists)
        /\ seq' = SetvalAll(seq, tgt, exists)
        /\ out' = printed \o <<Msg("Updating PostgreSQL sequences..."),
                               Msg("Sequences updated successfully.")>>
        /\ UNCHANGED caught
     \/ /\ out' = printed \o <<Msg("Updating PostgreSQL sequences..."),
                               ErrMsg("", "Error updating sequences", "psycopg2.Error")>>
        /\ caught' = TRUE
        /\ UNCHANGED seq
  /\ UNCHANGED <<src, tgt, exists, rows, exc>>

(***************************************************************************)
(* main(), one action per statement of its body.                           *)
(***************************************************************************)
\* Step 1: one iteration of the loop that creates the tables.
MainCreate ==
  /\ pc = "create"
  /\ create_table(order[i],
                  IF i = 1 THEN <<Msg("Creating tables in PostgreSQL...")>> ELSE <<>>)
  /\ IF i < Len(order)
       THEN i' = i + 1 /\ pc' = "create"
       ELSE i' = 1 /\ pc' = "copy"
  /\ UNCHANGED <<sqlite_open, pg_open, tgt0>>

\* Step 2: one iteration of the loop that transfers the data.
MainCopy ==
  /\ pc = "copy"
  /\ LET table == order[i] IN
       fetch_and_insert(table, Fields(table), Get(BOOL_FIELDS, table),
                        Get(BLOB_FIELDS, table),
                        <<TMsg(table, "Processing table...")>>)
  /\ IF exc' # "none"
       THEN i' = i /\ pc' = "crashed"
       ELSE IF i < Len(order)
         THEN i' = i + 1 /\ pc' = "copy"
         ELSE i' = i /\ pc' = "sequences"
  /\ UNCHANGED <<sqlite_open, pg_open, tgt0>>

\* Mutant: update_sequences is called inside the copy loop as well.
MainSequences_in_loop ==
  /\ pc \in {"copy", "sequences"}
  /\ update_sequences(<<>>)
  /\ pc' = IF pc = "copy" THEN "copy" ELSE "close"
  /\ UNCHANGED <<i, sqlite_open, pg_open, tgt0>>

\* Step 3
MainSequences ==
  /\ pc = "sequences"
  /\ update_sequences(<<>>)
  /\ pc' = IF exc' # "none" THEN "crashed" ELSE "close"
  /\ UNCHANGED <<i, sqlite_open, pg_open, tgt0>>

\* The four close() calls and the final print.
MainClose ==
  /\ pc = "close"
  /\ pg_open' = FALSE
  /\ sqlite_open' = FALSE
  /\ out' = <<Msg("Migration completed successfully!")>>
  /\ pc' = "done"
  /\ UNCHANGED <<src, tgt, exists, seq, i, rows, exc, tgt0, caught, calls>>

Next == MainCreate \/ MainCopy \/ MainSequences \/ MainClose

Spec == Init /\ [][Next]_vars

(***************************************************************************)
(* Properties.                                                             *)
(***************************************************************************)
\* The table the latest iteration of the copy loop processed.
CopiedLast == IF pc = "copy" THEN order[i - 1] ELSE order[Len(order)]

\* Some iteration of the copy loop has completed without raising.
SomeCopyDone == (pc = "copy" /\ i > 1) \/ pc \in {"sequences", "close", "done"}

\* The value the target is to receive for source value s of a column.
CoercedAs(table, column, s) ==
  IF table = "pre_auth_keys" /\ column \in {"reusable", "ephemeral", "used"}
    THEN IF s = NULL THEN NULL
         ELSE IF s = IntV(0) THEN BoolV(FALSE) ELSE BoolV(TRUE)
    ELSE s

\* A row list that holds the given source rows, value by value, up to the
\* coercion.
HoldsCopyOf(table, copy, source) ==
  /\ Len(copy) = Len(source)
  /\ \A r \in 1..Len(source) :
       /\ Len(copy[r]) = Len(Fields(table))
       /\ \A j \in 1..Len(Fields(table)) :
            copy[r][j] = CoercedAs(table, Fields(table)[j], source[r][j])

\* C1: after a run in which nothing raised and whose target tables started
\* empty, every target table exists and holds exactly the rows of its source
\* table, in the declared column order, up to the boolean/blob coercion.
C1_FaithfulCopy ==
  (pc = "done" /\ ~caught /\ exc = "none" /\ \A t \in Tables : tgt0[t] = <<>>)
    => \A t \in Tables : exists[t] /\ HoldsCopyOf(t, tgt[t], src[t])

C1_Witness ==
  /\ pc = "done" /\ ~caught /\ exc = "none"
  /\ \A t \in Tables : tgt0[t] = <<>> /\ Len(tgt[t]) >= 2

\* C9: the list of rows fetch_and_insert builds has one row per source row;
\* reusable, ephemeral and used of pre_auth_keys are NULL for NULL, false
\* for 0 and true for any other integer; hash of api_keys and every other
\* column keep their value, at the same position.
C9_Coercion ==
  SomeCopyDone => HoldsCopyOf(CopiedLast, rows, src[CopiedLast])

C9_Witness ==
  /\ pc = "copy" /\ i > 1 /\ CopiedLast = "pre_auth_keys"
  /\ \E r \in 1..Len(rows) : \E j, k, l \in 1..Len(rows[r]) :
       /\ src[CopiedLast][r][j] = IntV(2) /\ rows[r][j] = BoolV(TRUE)
       /\ src[CopiedLast][r][k] = IntV(0) /\ rows[r][k] = BoolV(FALSE)
       /\ src[CopiedLast][r][l] = NULL /\ rows[r][l] = NULL

\* The DO block of update_sequences has just succeeded.
SequencesUpdated ==
  pc = "close" /\ Msg("Sequences updated successfully.") \in Range(out)

\* C4: once update_sequences has succeeded, the sequence of every existing
\* table with a bigserial key stands at the largest key of the table, or at
\* 1 if the table is empty, and the next key it hands out is greater than
\* every key in the table.
C4_SequencesSynced ==
  SequencesUpdated =>
    \A t \in {"users", "pre_auth_keys", "api_keys", "policies", "nodes"} :
      exists[t] =>
        /\ tgt[t] = <<>> => seq[t].last_value = 1
        /\ tgt[t] # <<>> =>
             /\ \E r \in 1..Len(tgt[t]) : tgt[t][r][1] = IntV(seq[t].last_value)
             /\ \A r \in 1..Len(tgt[t]) : tgt[t][r][1].int <= seq[t].last_value
        /\ \A r \in 1..Len(tgt[t]) : NextVal(seq[t]) > tgt[t][r][1].int

C4_Witness ==
  /\ SequencesUpdated
  /\ \E t, u \in Tables :
       /\ tgt0[t] = <<>> /\ Len(tgt[t]) >= 2 /\ seq[t].last_value >= 2
       /\ exists[u] /\ SerialCols(u) # {} /\ tgt[u] = <<>>

\* main() has ended: it returned or an exception left it.
Ended == pc \in {"done", "crashed"}

C6_UsersFirst ==
  [][\A t \in {"pre_auth_keys", "nodes"} :
       /\ calls'.create[t] > calls.create[t] => calls.create["users"] = 1
       /\ (calls'.fetch[t] > calls.fetch[t] \/ calls'.insert[t] > calls.insert[t])
            => /\ calls.create["users"] = 1
               /\ calls.fetch["users"] = 1
               /\ tgt'["users"] = tgt["users"]]_vars

C6_Witness ==
  /\ pc = "sequences"
  /\ \E t \in {"pre_auth_keys", "nodes"} :
       /\ Len(tgt[t]) > Len(tgt0[t])
       /\ \E r \in 1..Len(tgt[t]) : \E j \in 1..Len(tgt[t][r]) :
            /\ Fields(t)[j] = "user_id"
            /\ tgt[t][r][j] # NULL
            /\ \E u \in 1..Len(src["users"]) :
                 /\ src["users"][u][1] = tgt[t][r][j]
                 /\ \E w \in 1..Len(tgt["users"]) : tgt["users"][w] = src["users"][u]

\* C7: the source is never written; no table receives more than one bulk
\* insert; after a table's bulk insert no step changes the rows of that
\* table; update_sequences changes no row of any table.
C7_WriteOnce ==
  /\ [][src' = src]_vars
  /\ [](\A t \in Tables : calls.insert[t] <= 1)
  /\ [][\A t \in Tables : calls.insert[t] = 1 => tgt'[t] = tgt[t]]_vars
  /\ [][pc = "sequences" => tgt' = tgt]_vars

C7_Witness ==
  /\ pc = "done"
  /\ \E t \in Tables : calls.insert[t] = 1 /\ Len(tgt[t]) > Len(tgt0[t])
  /\ seq # [t \in Tables |-> FreshSeq]

\* The step from this state to the next is a bulk insert that fails.
InsertFails ==
  /\ pc = "copy"
  /\ out' = <<TMsg(order[i], "Processing table..."),
              ErrMsg(order[i], "Error", "psycopg2.Error")>>

\* C8: a failing bulk insert removes no row of any table and no table: what
\* earlier steps created and inserted stays in the target.
C8_NoRollback ==
  [][InsertFails => tgt' = tgt /\ exists' = exists]_vars

C8_Witness ==
  /\ pc = "copy" /\ i > 1
  /\ ErrMsg(CopiedLast, "Error", "psycopg2.Error") \in Range(out)
  /\ exists[CopiedLast]
  /\ \E t \in Tables : Len(tgt[t]) > Len(tgt0[t])

\* main() has returned: connections closed, completion reported.
Completed ==
  /\ pc = "done"
  /\ ~sqlite_open /\ ~pg_open
  /\ out = <<Msg("Migration completed successfully!")>>

\* The number of statements of main() that have run.
Progress ==
  CASE pc = "create" -> i - 1
    [] pc = "copy" -> Len(order) + i - 1
    [] pc = "sequences" -> 2 * Len(order)
    [] pc = "close" -> 2 * Len(order) + 1
    [] OTHER -> 2 * Len(order) + 2

\* C10: unless a read of the source raises, main() reaches its completed
\* state whatever the target store refuses: every step moves main() forward,
\* no exception but that of a source read leaves it, and it stops nowhere
\* but in the completed state.  A source table without rows gets no insert
\* and its target table keeps the rows it had.
C10_Completes ==
  /\ [](Completed \/ exc = "sqlite3.Error" \/ ENABLED Next)
  /\ [][Progress' > Progress]_vars
  /\ [](exc \in {"none", "sqlite3.Error"})
  /\ [](\A t \in Tables : src[t] = <<>> => calls.insert[t] = 0 /\ tgt[t] = tgt0[t])

\* Completion is reported although creation, insert and synchronisation
\* errors were caught, a table with source rows received none, and another
\* table had no source rows.
C10_Witness ==
  /\ Completed /\ caught
  /\ ~Msg("Sequences updated successfully.") \in Range(out)
  /\ \E t \in Tables : ~exists[t]
  /\ \E t \in Tables : exists[t] /\ src[t] # <<>> /\ tgt[t] = <<>>
  /\ \E t \in Tables : src[t] = <<>> /\ calls.fetch[t] = 1

\* C3: an exception raised by a read of the source does not leave main():
\* the run goes on with the next table and ends after update_sequences.
C3_ReadErrorCaught ==
  /\ exc # "sqlite3.Error"
  /\ Ended => calls.setval = 1 /\ \A t \in Tables : calls.fetch[t] = 1

\* C2: once an error of the target store has been caught, the run does not
\* end before every table has been processed and update_sequences has run.
C2_PipelineContinues ==
  (caught /\ Ended) => calls.setval = 1 /\ \A t \in Tables : calls.fetch[t] = 1

====
